---- MODULE Spec2Model ----
(***************************************************************************)
(* A model of the Lisp interpreter of src/main.go: the value               *)
(* representation, the printer, the parser, the evaluator (myEval /        *)
(* myApply / myApplyAtom and their helpers), the read-eval-print loop      *)
(* myTop and the test driver of src/main_test.go.                          *)
(*                                                                         *)
(* A Go interface{} value is a record [k, s, n, l]: k is the dynamic type  *)
(* ("nil", "string", "int", "list"), s the string, n the int, l the        *)
(* elements of the []interface{}.  An evaluation is a recursive operator   *)
(* that threads the global alist and returns [v, g, err]: the value, the   *)
(* global alist it leaves, and the panic message ("" when none).           *)
(*                                                                         *)
(* A line of a session is the sequence of its tokens; where the reader is  *)
(* applied on its own, the text is the sequence of its characters and      *)
(* tokenize makes the tokens.  The lines that the print primitive writes   *)
(* to the standard output are not part of the state, and the integers of   *)
(* the sessions stay far from the limits of a Go int.                      *)
(***************************************************************************)
EXTENDS Integers, Sequences, FiniteSets, TLC

VARIABLES
  globalAlist,  \* the global environment
  line,         \* the tokens of the input line being evaluated
  result,       \* the value of the last evaluation
  printed,      \* its printed form
  err,          \* the panic message of the last evaluation, "" when none
  pc,           \* where the program is
  nlines,       \* the number of lines read so far
  operands,     \* the operands of a primitive applied on its own
  input         \* the characters of the text handed to readSExpression

vars == <<globalAlist, line, result, printed, err, pc, nlines, operands, input>>

(***************************************************************************)
(* Bounds of the model.                                                    *)
(***************************************************************************)
\* number of input lines of one session
MaxLines == 4
\* depth of nested myEval calls before the Go stack is taken as exhausted
MaxDepth == 14
\* the integer literals of the input are those of -MaxLit..MaxLit
MaxLit == 20

(***************************************************************************)
(* Values.                                                                 *)
(***************************************************************************)
NilV == [k |-> "nil", s |-> "", n |-> 0, l |-> <<>>]
SymV(str) == [k |-> "string", s |-> str, n |-> 0, l |-> <<>>]
IntV(i) == [k |-> "int", s |-> "", n |-> i, l |-> <<>>]
ListV(elems) == [k |-> "list", s |-> "", n |-> 0, l |-> elems]

\* strings.ToUpper on the spellings that occur in the model: the lower and
\* mixed case spellings map to their upper-case form, every other spelling
\* (upper-case letters, digits, punctuation) is left as it is.
UpperOf ==
  [t \in {"a", "b", "c", "f", "g", "h", "x", "y", "z", "t", "nil", "Nil",
          "abc", "Abc", "foo", "Foo", "quote", "cond", "defun", "setq",
          "eval", "apply", "and", "or", "not", "let*", "let", "if", "car",
          "cdr", "cons", "eq", "equal", "atom", "null", "listp", "symbolp",
          "stringp", "numberp", "print", "mod", "floor", "list", "zerop",
          "elem", "lambda", "loop", "Car", "Setq"} |->
     CASE t = "a" -> "A" [] t = "b" -> "B" [] t = "c" -> "C"
       [] t = "f" -> "F" [] t = "g" -> "G" [] t = "h" -> "H"
       [] t = "x" -> "X" [] t = "y" -> "Y" [] t = "z" -> "Z"
       [] t = "t" -> "T" [] t \in {"nil", "Nil"} -> "NIL"
       [] t \in {"abc", "Abc"} -> "ABC" [] t \in {"foo", "Foo"} -> "FOO"
       [] t = "quote" -> "QUOTE" [] t = "cond" -> "COND"
       [] t = "defun" -> "DEFUN" [] t \in {"setq", "Setq"} -> "SETQ"
       [] t = "eval" -> "EVAL" [] t = "apply" -> "APPLY"
       [] t = "and" -> "AND" [] t = "or" -> "OR" [] t = "not" -> "NOT"
       [] t = "let*" -> "LET*" [] t = "let" -> "LET" [] t = "if" -> "IF"
       [] t \in {"car", "Car"} -> "CAR" [] t = "cdr" -> "CDR"
       [] t = "cons" -> "CONS" [] t = "eq" -> "EQ" [] t = "equal" -> "EQUAL"
       [] t = "atom" -> "ATOM" [] t = "null" -> "NULL"
       [] t = "listp" -> "LISTP" [] t = "symbolp" -> "SYMBOLP"
       [] t = "stringp" -> "STRINGP" [] t = "numberp" -> "NUMBERP"
       [] t = "print" -> "PRINT" [] t = "mod" -> "MOD"
       [] t = "floor" -> "FLOOR" [] t = "list" -> "LIST"
       [] t = "zerop" -> "ZEROP" [] t = "elem" -> "ELEM"
       [] t = "lambda" -> "LAMBDA" [] t = "loop" -> "LOOP"]

ToUpper(str) == IF str \in DOMAIN UpperOf THEN UpperOf[str] ELSE str

isSymbol(x, str) == x.k = "string" /\ ToUpper(x.s) = ToUpper(str)

isNil(x) == x.k = "nil" \/ isSymbol(x, "NIL")

boolToT(b) == IF b THEN SymV("T") ELSE NilV

(***************************************************************************)
(* The printer.                                                            *)
(***************************************************************************)
RECURSIVE JoinSpace(_)
JoinSpace(parts) ==
  IF Len(parts) = 0 THEN ""
  ELSE IF Len(parts) = 1 THEN parts[1]
  ELSE parts[1] \o " " \o JoinSpace(Tail(parts))

RECURSIVE toLispString(_)
\* toLispString with every symbol printed in its upper-case form
toLispString_upper(obj) ==
  CASE obj.k = "nil" -> "NIL"
    [] obj.k = "string" -> ToUpper(obj.s)
    [] obj.k = "int" -> ToString(obj.n)
    [] obj.k = "list" ->
         "(" \o JoinSpace([i \in 1..Len(obj.l) |-> toLispString(obj.l[i])]) \o ")"

toLispString(obj) ==
  CASE obj.k = "nil" -> "NIL"
    [] obj.k = "string" ->
         IF isSymbol(obj, "T") THEN "T"
         ELSE IF isSymbol(obj, "NIL") THEN "NIL"
         ELSE obj.s
    [] obj.k = "int" -> ToString(obj.n)
    [] obj.k = "list" ->
         "(" \o JoinSpace([i \in 1..Len(obj.l) |-> toLispString(obj.l[i])]) \o ")"

(***************************************************************************)
(* Structural equality.                                                    *)
(***************************************************************************)
RECURSIVE equalp(_, _)
equalp(x, y) ==
  CASE x.k = "nil" -> y.k = "nil"
    [] x.k = "string" -> y.k = "string" /\ ToUpper(x.s) = ToUpper(y.s)
    [] x.k = "int" -> y.k = "int" /\ x.n = y.n
    [] x.k = "list" ->
         /\ y.k = "list"
         /\ Len(x.l) = Len(y.l)
         /\ \A i \in 1..Len(x.l) : equalp(x.l[i], y.l[i])

(***************************************************************************)
(* Alists.  A Go map is a reference: the alist handed to myEval is either  *)
(* the global map itself (isG) or a map built by let, let* or bindFormals. *)
(***************************************************************************)
EmptyAlist == [key \in {} |-> NilV]

GlobalRef == [isG |-> TRUE, m |-> EmptyAlist]

LocalRef(m) == [isG |-> FALSE, m |-> m]

\* the contents of the map an alist refers to, the global alist being g
Deref(alist, g) == IF alist.isG THEN g ELSE alist.m

Put(m, key, v) == (key :> v) @@ m

\* outcome of an evaluation
Ok(v, g) == [v |-> v, g |-> g, err |-> ""]

Panic(msg, g) == [v |-> NilV, g |-> g, err |-> msg]

\* the Go runtime's fatal error on an exhausted stack; recover() does not
\* catch it
StackOverflow == "fatal error: stack overflow"

\* integer division and remainder of Go truncate toward zero
GoDiv(x, y) ==
  IF (x >= 0) = (y > 0) THEN (IF x >= 0 THEN x ELSE -x) \div (IF y > 0 THEN y ELSE -y)
  ELSE -((IF x >= 0 THEN x ELSE -x) \div (IF y > 0 THEN y ELSE -y))

GoMod(x, y) == x - y * GoDiv(x, y)

\* strconv.ParseFloat followed by math.Floor, on the spellings of the model
\* that are floats and not integer literals
FloatFloor == ("1.5" :> 1) @@ ("-1.5" :> -2) @@ ("2.0" :> 2)

\* myEvalAtom with the lookup in the alists before the test for T and NIL
myEvalAtom_lookupFirst(atom, alist, g) ==
  CASE atom.k = "int" -> atom
    [] atom.k = "string" ->
         IF atom.s \in DOMAIN Deref(alist, g) THEN Deref(alist, g)[atom.s]
         ELSE IF atom.s \in DOMAIN g THEN g[atom.s]
         ELSE IF ToUpper(atom.s) = "T" THEN SymV("T")
         ELSE IF ToUpper(atom.s) = "NIL" THEN NilV
         ELSE atom
    [] OTHER -> atom

myEvalAtom(atom, alist, g) ==
  CASE atom.k = "int" -> atom
    [] atom.k = "string" ->
         IF ToUpper(atom.s) = "T" THEN SymV("T")
         ELSE IF ToUpper(atom.s) = "NIL" THEN NilV
         ELSE IF atom.s \in DOMAIN Deref(alist, g) THEN Deref(alist, g)[atom.s]
         ELSE IF atom.s \in DOMAIN g THEN g[atom.s]
         ELSE atom
    [] OTHER -> atom

(***************************************************************************)
(* The evaluator.  d is the number of nested myEval calls the stack still  *)
(* has room for.                                                           *)
(***************************************************************************)
RECURSIVE myEval(_, _, _, _)
RECURSIVE myApply(_, _, _, _, _)
RECURSIVE myApplyAtom(_, _, _, _, _)
RECURSIVE myApplyLambda(_, _, _, _, _)
RECURSIVE myEvalList(_, _, _, _)
RECURSIVE myEvalCond(_, _, _, _)
RECURSIVE evalArgs(_, _, _, _)
RECURSIVE evalAnd(_, _, _, _)
RECURSIVE evalOr(_, _, _, _)
RECURSIVE letStarBind(_, _, _, _)
RECURSIVE letBind(_, _, _, _)
RECURSIVE applyUser(_, _, _, _, _)
RECURSIVE evalLet(_, _, _, _)
RECURSIVE evalSetq(_, _, _, _)
RECURSIVE evalLetStar(_, _, _, _)
RECURSIVE myEvalSetq(_, _, _, _)

myEval(expr, alist, g, d) ==
  IF d = 0 THEN Panic(StackOverflow, g)
  ELSE CASE expr.k \in {"string", "int"} -> Ok(myEvalAtom(expr, alist, g), g)
         [] expr.k = "list" ->
              IF Len(expr.l) = 0 THEN Ok(NilV, g)
              ELSE IF expr.l[1].k # "string"
                   THEN Panic("Invalid function: must be a symbol", g)
              ELSE myApply(expr.l[1].s, Tail(expr.l), alist, g, d - 1)
         [] OTHER -> Ok(expr, g)

\* the loop of myEvalList, and of the default case of myApply: the values of
\* exprs, evaluated from left to right, up to the first panic
evalArgs(exprs, alist, g, d) ==
  IF Len(exprs) = 0 THEN [vs |-> <<>>, g |-> g, err |-> ""]
  ELSE LET r == myEval(Head(exprs), alist, g, d)
       IN IF r.err # "" THEN [vs |-> <<>>, g |-> r.g, err |-> r.err]
          ELSE LET rest == evalArgs(Tail(exprs), alist, r.g, d)
               IN [vs |-> <<r.v>> \o rest.vs, g |-> rest.g, err |-> rest.err]

myEvalList(exprs, alist, g, d) ==
  LET r == evalArgs(exprs, alist, g, d)
  IN IF r.err # "" THEN Panic(r.err, r.g)
     ELSE IF Len(exprs) = 0 THEN Ok(NilV, r.g)
     ELSE Ok(r.vs[Len(exprs)], r.g)

\* the formals bound to the actuals (a later duplicate overwrites an
\* earlier one), over the bindings of alist
bindFormals(formals, actuals, alist, g) ==
  IF Len(formals) # Len(actuals)
  THEN [m |-> EmptyAlist, err |-> "Lambda argument count mismatch"]
  ELSE IF \E i \in 1..Len(formals) : formals[i].k # "string"
  THEN [m |-> EmptyAlist, err |-> "Formal parameters must be symbols"]
  ELSE LET newAlist ==
             [sym \in {formals[i].s : i \in 1..Len(formals)} |->
                LET last == CHOOSE i \in 1..Len(formals) :
                              /\ formals[i].s = sym
                              /\ \A j \in 1..Len(formals) :
                                    formals[j].s = sym => j <= i
                IN actuals[last]]
       IN [m |-> newAlist @@ Deref(alist, g), err |-> ""]

myApplyLambda(fnBody, args, alist, g, d) ==
  IF Len(fnBody) < 2 THEN Panic("Invalid lambda function definition", g)
  ELSE IF fnBody[1].k # "list" THEN Panic("Invalid lambda formals", g)
  ELSE LET b == bindFormals(fnBody[1].l, args, alist, g)
       IN IF b.err # "" THEN Panic(b.err, g)
          ELSE myEvalList(Tail(fnBody), LocalRef(b.m), g, d)

\* myEvalSetq with the variable entered in the map before the value is
\* evaluated
myEvalSetq_entersFirst(varName, val, g, d) ==
  LET r == myEval(val, GlobalRef, Put(g, varName, NilV), d)
  IN IF r.err # "" THEN r
     ELSE Ok(r.v, Put(r.g, varName, r.v))

myEvalSetq(varName, val, g, d) ==
  LET r == myEval(val, GlobalRef, g, d)
  IN IF r.err # "" THEN r
     ELSE Ok(r.v, Put(r.g, varName, r.v))

myEvalDefun(args, g) ==
  IF Len(args) < 3
  THEN Panic("defun: must have (defun fname (args...) body...)", g)
  ELSE IF args[1].k # "string"
  THEN Panic("defun: first argument must be a symbol", g)
  ELSE IF args[2].k # "list"
  THEN Panic("defun: second argument must be a list of formals", g)
  ELSE Ok(SymV(args[1].s),
          Put(g, args[1].s, ListV(<<args[2]>> \o SubSeq(args, 3, Len(args)))))

\* myEvalCond going on to the later clauses after the selected one
myEvalCond_goesOn(clauses, alist, g, d) ==
  IF Len(clauses) = 0 THEN Ok(NilV, g)
  ELSE LET c == Head(clauses)
       IN IF c.k # "list" \/ Len(c.l) = 0
          THEN Panic("cond: each clause must be a non-empty list", g)
          ELSE LET r == myEval(c.l[1], alist, g, d)
               IN IF r.err # "" THEN r
                  ELSE IF ~isNil(r.v)
                  THEN LET body == myEvalList(Tail(c.l), alist, r.g, d)
                       IN IF body.err # "" THEN body
                          ELSE LET rest == myEvalCond(Tail(clauses), alist, body.g, d)
                               IN IF rest.err # "" THEN rest
                                  ELSE Ok(body.v, rest.g)
                  ELSE myEvalCond(Tail(clauses), alist, r.g, d)

myEvalCond(clauses, alist, g, d) ==
  IF Len(clauses) = 0 THEN Ok(NilV, g)
  ELSE LET c == Head(clauses)
       IN IF c.k # "list" \/ Len(c.l) = 0
          THEN Panic("cond: each clause must be a non-empty list", g)
          ELSE LET r == myEval(c.l[1], alist, g, d)
               IN IF r.err # "" THEN r
                  ELSE IF ~isNil(r.v) THEN myEvalList(Tail(c.l), alist, r.g, d)
                  ELSE myEvalCond(Tail(clauses), alist, r.g, d)

toList(x) ==
  IF x.k = "nil" THEN <<>>
  ELSE IF x.k = "list" THEN x.l
  ELSE <<x>>

\* the loop of the AND case of myApply
evalAnd(args, alist, g, d) ==
  IF Len(args) = 0 THEN Ok(SymV("T"), g)
  ELSE LET r == myEval(Head(args), alist, g, d)
       IN IF r.err # "" THEN r
          ELSE IF isNil(r.v) THEN Ok(NilV, r.g)
          ELSE evalAnd(Tail(args), alist, r.g, d)

\* the loop of the OR case of myApply
evalOr(args, alist, g, d) ==
  IF Len(args) = 0 THEN Ok(NilV, g)
  ELSE LET r == myEval(Head(args), alist, g, d)
       IN IF r.err # "" THEN r
          ELSE IF ~isNil(r.v) THEN Ok(SymV("T"), r.g)
          ELSE evalOr(Tail(args), alist, r.g, d)

\* the binding loop of the LET* case: each init is evaluated in the map
\* built so far
letStarBind(bindings, localAlist, g, d) ==
  IF Len(bindings) = 0 THEN [m |-> localAlist, g |-> g, err |-> ""]
  ELSE LET b == Head(bindings)
       IN IF b.k # "list" \/ Len(b.l) # 2
          THEN [m |-> localAlist, g |-> g,
                err |-> "let*: each binding must be a pair (var val)"]
          ELSE IF b.l[1].k # "string"
          THEN [m |-> localAlist, g |-> g,
                err |-> "let*: variable name must be a symbol"]
          ELSE LET r == myEval(b.l[2], LocalRef(localAlist), g, d)
               IN IF r.err # "" THEN [m |-> localAlist, g |-> r.g, err |-> r.err]
                  ELSE letStarBind(Tail(bindings),
                                   Put(localAlist, b.l[1].s, r.v), r.g, d)

\* the first loop of the LET case: every init is evaluated in the caller's
\* alist; names and vals are varNames and varVals
letBind(bindings, alist, g, d) ==
  IF Len(bindings) = 0
  THEN [names |-> <<>>, vals |-> <<>>, g |-> g, err |-> ""]
  ELSE LET b == Head(bindings)
       IN IF b.k # "list" \/ Len(b.l) # 2
          THEN [names |-> <<>>, vals |-> <<>>, g |-> g,
                err |-> "let: each binding must be (var val)"]
          ELSE IF b.l[1].k # "string"
          THEN [names |-> <<>>, vals |-> <<>>, g |-> g,
                err |-> "let: variable name must be a symbol"]
          ELSE LET r == myEval(b.l[2], alist, g, d)
               IN IF r.err # ""
                  THEN [names |-> <<>>, vals |-> <<>>, g |-> r.g, err |-> r.err]
                  ELSE LET rest == letBind(Tail(bindings), alist, r.g, d)
                       IN [names |-> <<b.l[1].s>> \o rest.names,
                           vals |-> <<r.v>> \o rest.vals,
                           g |-> rest.g, err |-> rest.err]

\* the second loop of the LET case: localAlist[varName] = varVals[i], in order
RECURSIVE letOverlay(_, _, _)
letOverlay(names, vals, localAlist) ==
  IF Len(names) = 0 THEN localAlist
  ELSE letOverlay(Tail(names), Tail(vals), Put(localAlist, Head(names), Head(vals)))

AllInts(args) == \A i \in 1..Len(args) : args[i].k = "int"

RECURSIVE SumOf(_)
SumOf(args) == IF Len(args) = 0 THEN 0 ELSE Head(args).n + SumOf(Tail(args))

RECURSIVE ProdOf(_)
ProdOf(args) == IF Len(args) = 0 THEN 1 ELSE Head(args).n * ProdOf(Tail(args))

\* the loop of the "/" case: the quotient so far divided by each further
\* argument, "division by zero" at the first zero divisor
RECURSIVE DivFold(_, _)
DivFold(acc, args) ==
  IF Len(args) = 0 THEN [n |-> acc, err |-> ""]
  ELSE IF Head(args).k # "int" THEN [n |-> 0, err |-> "/ expects integers"]
  ELSE IF Head(args).n = 0 THEN [n |-> 0, err |-> "division by zero"]
  ELSE DivFold(GoDiv(acc, Head(args).n), Tail(args))

\* eqAtom comparing by structure, as equal does
eqAtom_structural(x, y) ==
  IF isNil(x) /\ isNil(y) THEN SymV("T") ELSE boolToT(equalp(x, y))

\* the EQ case of myApplyAtom
eqAtom(x, y) ==
  IF isNil(x) /\ isNil(y) THEN SymV("T")
  ELSE CASE x.k = "string" ->
              IF y.k = "string" /\ ToUpper(x.s) = ToUpper(y.s)
              THEN SymV("T") ELSE NilV
         [] x.k = "int" ->
              IF y.k = "int" /\ x.n = y.n THEN SymV("T") ELSE NilV
         [] OTHER -> NilV

\* applyUser with the body evaluated over the caller's alist
applyUser_callerAlist(fnSym, args, alist, g, d) ==
  IF fnSym \notin DOMAIN g THEN Panic("Unknown function: " \o fnSym, g)
  ELSE IF g[fnSym].k # "list"
  THEN Panic("Invalid function definition for: " \o fnSym, g)
  ELSE myApplyLambda(g[fnSym].l, args, alist, g, d)

\* applyUser with the function looked up in the caller's alist before the
\* global one
applyUser_localFirst(fnSym, args, alist, g, d) ==
  LET m == Deref(alist, g) @@ g
  IN IF fnSym \notin DOMAIN m THEN Panic("Unknown function: " \o fnSym, g)
     ELSE IF m[fnSym].k # "list"
     THEN Panic("Invalid function definition for: " \o fnSym, g)
     ELSE myApplyLambda(m[fnSym].l, args, GlobalRef, g, d)

\* the default case of myApplyAtom: a function defined by the user is looked
\* up in the global alist and applied over the global alist
applyUser(fnSym, args, alist, g, d) ==
  IF fnSym \notin DOMAIN g THEN Panic("Unknown function: " \o fnSym, g)
  ELSE IF g[fnSym].k # "list"
  THEN Panic("Invalid function definition for: " \o fnSym, g)
  ELSE myApplyLambda(g[fnSym].l, args, GlobalRef, g, d)

myApplyAtom(fnSym, args, alist, g, d) ==
  LET up == ToUpper(fnSym)
      n == Len(args)
  IN CASE up = "CAR" ->
            IF n # 1 THEN Panic("car expects 1 argument", g)
            ELSE IF args[1].k # "list" \/ Len(args[1].l) = 0 THEN Ok(NilV, g)
            ELSE Ok(args[1].l[1], g)
       [] up = "CDR" ->
            IF n # 1 THEN Panic("cdr expects 1 argument", g)
            ELSE IF args[1].k # "list" \/ Len(args[1].l) <= 1 THEN Ok(NilV, g)
            ELSE Ok(ListV(Tail(args[1].l)), g)
       [] up = "CONS" ->
            IF n # 2 THEN Panic("cons expects 2 arguments", g)
            ELSE IF args[2].k = "nil" THEN Ok(ListV(<<args[1]>>), g)
            ELSE IF args[2].k = "list" THEN Ok(ListV(<<args[1]>> \o args[2].l), g)
            ELSE Ok(ListV(<<args[1], args[2]>>), g)
       [] up = "EQ" ->
            IF n # 2 THEN Panic("eq expects 2 arguments", g)
            ELSE Ok(eqAtom(args[1], args[2]), g)
       [] up = "EQUAL" ->
            IF n # 2 THEN Panic("equal expects 2 arguments", g)
            ELSE Ok(boolToT(equalp(args[1], args[2])), g)
       [] up = "ATOM" ->
            IF n # 1 THEN Panic("atom expects 1 argument", g)
            ELSE Ok(boolToT(args[1].k # "list"), g)
       [] up = "NULL" ->
            IF n # 1 THEN Panic("null expects 1 argument", g)
            ELSE Ok(boolToT(isNil(args[1])), g)
       [] up = "LISTP" ->
            IF n # 1 THEN Panic("listp expects 1 argument", g)
            ELSE Ok(boolToT(args[1].k = "list"), g)
       [] up = "SYMBOLP" ->
            IF n # 1 THEN Panic("symbolp expects 1 argument", g)
            ELSE Ok(boolToT(args[1].k = "string"), g)
       [] up = "STRINGP" ->
            IF n # 1 THEN Panic("stringp expects 1 argument", g)
            ELSE Ok(boolToT(args[1].k = "string"), g)
       [] up = "NUMBERP" ->
            IF n # 1 THEN Panic("numberp expects 1 argument", g)
            ELSE Ok(boolToT(args[1].k = "int"), g)
       [] up = "PRINT" ->
            IF n # 1 THEN Panic("print expects 1 argument", g)
            ELSE Ok(args[1], g)
       [] up = "+" ->
            IF ~AllInts(args) THEN Panic("+ expects integers", g)
            ELSE Ok(IntV(SumOf(args)), g)
       [] up = "-" ->
            IF n < 1 THEN Panic("- expects at least one argument", g)
            ELSE IF ~AllInts(args) THEN Panic("- expects integers", g)
            ELSE IF n = 1 THEN Ok(IntV(-args[1].n), g)
            ELSE Ok(IntV(args[1].n - SumOf(Tail(args))), g)
       [] up = "*" ->
            IF ~AllInts(args) THEN Panic("* expects integers", g)
            ELSE Ok(IntV(ProdOf(args)), g)
       [] up = "/" ->
            IF n < 2 THEN Panic("/ expects at least two arguments", g)
            ELSE IF args[1].k # "int" THEN Panic("/ expects integers", g)
            ELSE LET q == DivFold(args[1].n, Tail(args))
                 IN IF q.err # "" THEN Panic(q.err, g) ELSE Ok(IntV(q.n), g)
       [] up = "<" ->
            IF n # 2 THEN Panic("< expects exactly two arguments", g)
            ELSE IF ~AllInts(args) THEN Panic("< expects integers", g)
            ELSE Ok(boolToT(args[1].n < args[2].n), g)
       [] up = ">" ->
            IF n # 2 THEN Panic("> expects exactly two arguments", g)
            ELSE IF ~AllInts(args) THEN Panic("> expects integers", g)
            ELSE Ok(boolToT(args[1].n > args[2].n), g)
       [] up = "1+" ->
            IF n # 1 THEN Panic("1+ expects one argument", g)
            ELSE IF args[1].k # "int" THEN Panic("1+ expects an integer", g)
            ELSE Ok(IntV(args[1].n + 1), g)
       [] up = "1-" ->
            IF n # 1 THEN Panic("1- expects one argument", g)
            ELSE IF args[1].k # "int" THEN Panic("1- expects an integer", g)
            ELSE Ok(IntV(args[1].n - 1), g)
       [] up = "MOD" ->
            IF n # 2 THEN Panic("mod expects exactly 2 arguments", g)
            ELSE IF ~AllInts(args) THEN Panic("mod expects integers", g)
            ELSE IF args[2].n = 0 THEN Panic("mod by zero", g)
            ELSE Ok(IntV(GoMod(args[1].n, args[2].n)), g)
       [] up = "FLOOR" ->
            IF n = 1
            THEN CASE args[1].k = "int" -> Ok(args[1], g)
                   [] args[1].k = "string" ->
                        IF args[1].s \in DOMAIN FloatFloor
                        THEN Ok(IntV(FloatFloor[args[1].s]), g)
                        ELSE Panic("floor expects a number", g)
                   [] OTHER -> Panic("floor expects a number", g)
            ELSE IF n = 2
            THEN IF ~AllInts(args)
                 THEN Panic("floor expects integers when given two arguments", g)
                 ELSE IF args[2].n = 0 THEN Panic("division by zero", g)
                 ELSE Ok(IntV(GoDiv(args[1].n, args[2].n)), g)
            ELSE Panic("floor expects one or two arguments", g)
       [] up = "=" ->
            IF n # 2 THEN Panic("= expects exactly 2 arguments", g)
            ELSE IF ~AllInts(args) THEN Panic("= expects integers", g)
            ELSE Ok(boolToT(args[1].n = args[2].n), g)
       [] up = "LIST" -> Ok(ListV(args), g)
       [] up = "ZEROP" ->
            IF n # 1 THEN Panic("zerop expects 1 argument", g)
            ELSE IF args[1].k # "int" THEN Panic("zerop expects an integer", g)
            ELSE Ok(boolToT(args[1].n = 0), g)
       [] up = "ELEM" ->
            IF n # 2 THEN Panic("elem expects 2 arguments", g)
            ELSE IF args[2].k # "list" THEN Ok(NilV, g)
            ELSE Ok(boolToT(\E i \in 1..Len(args[2].l) :
                               equalp(args[2].l[i], args[1])), g)
       [] up = "LAMBDA" -> Ok(ListV(args), g)
       [] up = "IF" ->
            IF n < 2 \/ n > 3 THEN Panic("if expects (if condition then [else])", g)
            ELSE LET c == myEval(args[1], alist, g, d)
                 IN IF c.err # "" THEN c
                    ELSE IF ~isNil(c.v) THEN myEval(args[2], alist, c.g, d)
                    ELSE IF n = 3 THEN myEval(args[3], alist, c.g, d)
                    ELSE Ok(NilV, c.g)
       [] OTHER -> applyUser(fnSym, args, alist, g, d)

\* evalSetq with the value expression evaluated in the caller's alist
evalSetq_callerAlist(args, alist, g, d) ==
  IF Len(args) # 2 THEN Panic("setq expects 2 arguments", g)
  ELSE IF args[1].k # "string"
  THEN Panic("setq: first argument must be a symbol", g)
  ELSE LET r == myEval(args[2], alist, g, d)
       IN IF r.err # "" THEN r
          ELSE Ok(r.v, Put(r.g, args[1].s, r.v))

\* the SETQ case of myApply
evalSetq(args, alist, g, d) ==
  IF Len(args) # 2 THEN Panic("setq expects 2 arguments", g)
  ELSE IF args[1].k # "string"
  THEN Panic("setq: first argument must be a symbol", g)
  ELSE myEvalSetq(args[1].s, args[2], g, d)

\* the LET* case of myApply
evalLetStar(args, alist, g, d) ==
  IF Len(args) < 2
  THEN Panic("let* expects at least ((var val)...) and a body", g)
  ELSE IF args[1].k # "list"
  THEN Panic("let*: first argument must be a list of bindings", g)
  ELSE LET b == letStarBind(args[1].l, Deref(alist, g), g, d)
       IN IF b.err # "" THEN Panic(b.err, b.g)
          ELSE myEvalList(Tail(args), LocalRef(b.m), b.g, d)

\* evalLet with each init evaluated in the alist built so far
evalLet_sequential(args, alist, g, d) ==
  IF Len(args) < 2 THEN Panic("let expects ((var val)...) and a body", g)
  ELSE IF args[1].k # "list"
  THEN Panic("let: first argument must be a list of bindings", g)
  ELSE LET b == letStarBind(args[1].l, Deref(alist, g), g, d)
       IN IF b.err # "" THEN Panic(b.err, b.g)
          ELSE myEvalList(Tail(args), LocalRef(b.m), b.g, d)

\* evalLet with the bindings written to the caller's map instead of a copy
evalLet_noCopy(args, alist, g, d) ==
  IF Len(args) < 2 THEN Panic("let expects ((var val)...) and a body", g)
  ELSE IF args[1].k # "list"
  THEN Panic("let: first argument must be a list of bindings", g)
  ELSE LET b == letBind(args[1].l, alist, g, d)
       IN IF b.err # "" THEN Panic(b.err, b.g)
          ELSE IF alist.isG
          THEN myEvalList(Tail(args), GlobalRef,
                          letOverlay(b.names, b.vals, b.g), d)
          ELSE myEvalList(Tail(args),
                          LocalRef(letOverlay(b.names, b.vals, alist.m)),
                          b.g, d)

\* the LET case of myApply: localAlist is copied from alist before the inits
\* are evaluated
evalLet(args, alist, g, d) ==
  IF Len(args) < 2 THEN Panic("let expects ((var val)...) and a body", g)
  ELSE IF args[1].k # "list"
  THEN Panic("let: first argument must be a list of bindings", g)
  ELSE LET b == letBind(args[1].l, alist, g, d)
       IN IF b.err # "" THEN Panic(b.err, b.g)
          ELSE myEvalList(Tail(args),
                          LocalRef(letOverlay(b.names, b.vals, Deref(alist, g))),
                          b.g, d)

myApply(fnSym, args, alist, g, d) ==
  LET up == ToUpper(fnSym)
      n == Len(args)
  IN CASE up = "QUOTE" ->
            IF n # 1 THEN Panic("quote expects exactly one argument", g)
            ELSE Ok(args[1], g)
       [] up = "COND" -> myEvalCond(args, alist, g, d)
       [] up = "DEFUN" -> myEvalDefun(args, g)
       [] up = "SETQ" -> evalSetq(args, alist, g, d)
       [] up = "EVAL" ->
            IF n # 1 THEN Panic("eval expects 1 argument", g)
            ELSE LET val == myEval(args[1], alist, g, d)
                 IN IF val.err # "" THEN val
                    ELSE myEval(val.v, alist, val.g, d)
       [] up = "APPLY" ->
            IF n # 2 THEN Panic("apply expects exactly 2 arguments", g)
            ELSE LET fnVal == myEval(args[1], alist, g, d)
                 IN IF fnVal.err # "" THEN fnVal
                    ELSE IF fnVal.v.k # "string"
                    THEN Panic("apply expects a function symbol as first arg", fnVal.g)
                    ELSE LET argVal == myEval(args[2], alist, fnVal.g, d)
                         IN IF argVal.err # "" THEN argVal
                            ELSE myApplyAtom(fnVal.v.s, toList(argVal.v),
                                             alist, argVal.g, d)
       [] up = "AND" -> evalAnd(args, alist, g, d)
       [] up = "OR" -> evalOr(args, alist, g, d)
       [] up = "NOT" ->
            IF n # 1 THEN Panic("not expects 1 argument", g)
            ELSE LET val == myEval(args[1], alist, g, d)
                 IN IF val.err # "" THEN val
                    ELSE Ok(boolToT(isNil(val.v)), val.g)
       [] up = "LET*" -> evalLetStar(args, alist, g, d)
       [] up = "IF" ->
            IF n < 2 \/ n > 3 THEN Panic("if expects (if condition then [else])", g)
            ELSE LET c == myEval(args[1], alist, g, d)
                 IN IF c.err # "" THEN c
                    ELSE IF ~isNil(c.v) THEN myEval(args[2], alist, c.g, d)
                    ELSE IF n = 3 THEN myEval(args[3], alist, c.g, d)
                    ELSE Ok(NilV, c.g)
       [] up = "LET" -> evalLet(args, alist, g, d)
       [] OTHER ->
            LET evaledArgs == evalArgs(args, alist, g, d)
            IN IF evaledArgs.err # "" THEN Panic(evaledArgs.err, evaledArgs.g)
               ELSE myApplyAtom(fnSym, evaledArgs.vs, alist, evaledArgs.g, d)

(***************************************************************************)
(* The reader.  A text is the sequence of its characters, a token is a     *)
(* string.                                                                 *)
(***************************************************************************)
\* the characters strings.TrimSpace strips that occur in the model
WhiteSpace == {" ", "\t", "\n"}

\* strings.TrimSpace
RECURSIVE TrimSpace(_)
TrimSpace(chars) ==
  IF Len(chars) = 0 THEN chars
  ELSE IF Head(chars) \in WhiteSpace THEN TrimSpace(Tail(chars))
  ELSE IF chars[Len(chars)] \in WhiteSpace
  THEN TrimSpace(SubSeq(chars, 1, Len(chars) - 1))
  ELSE chars

appendToken(tokens, token) ==
  IF token # "" THEN Append(tokens, token) ELSE tokens

\* the loop of tokenize from character i on; token is the strings.Builder
RECURSIVE tokenizeFrom(_, _, _, _)
tokenizeFrom(chars, i, tokens, token) ==
  IF i > Len(chars) THEN appendToken(tokens, token)
  ELSE LET ch == chars[i]
       IN IF ch \in {"(", ")", "'"}
          THEN tokenizeFrom(chars, i + 1, Append(appendToken(tokens, token), ch), "")
          ELSE IF ch = " "
          THEN tokenizeFrom(chars, i + 1, appendToken(tokens, token), "")
          ELSE tokenizeFrom(chars, i + 1, tokens, token \o ch)

tokenize(chars) == tokenizeFrom(TrimSpace(chars), 1, <<>>, "")

\* strconv.Atoi: the decimal spellings of the integers of the model, and
\* the spellings with a sign or leading zeros that Atoi accepts as well
AtoiOf ==
  [t \in {ToString(i) : i \in -MaxLit..MaxLit} |->
     CHOOSE i \in -MaxLit..MaxLit : ToString(i) = t]
  @@ ("+1" :> 1) @@ ("007" :> 7) @@ ("-0" :> 0)

RECURSIVE parseSExpression(_, _)
RECURSIVE parseList(_, _, _)

\* pos counts the tokens consumed, as parser.pos does
parseSExpression(tokens, pos) ==
  IF pos >= Len(tokens) THEN [v |-> NilV, pos |-> pos, err |-> ""]
  ELSE LET t == tokens[pos + 1]
       IN CASE t = "'" ->
                 LET e == parseSExpression(tokens, pos + 1)
                 IN IF e.err # "" THEN e
                    ELSE [v |-> ListV(<<SymV("quote"), e.v>>), pos |-> e.pos,
                          err |-> ""]
            [] t = "(" -> parseList(tokens, pos + 1, <<>>)
            [] t = ")" -> [v |-> NilV, pos |-> pos + 1, err |-> "unexpected )"]
            [] OTHER ->
                 IF t \in DOMAIN AtoiOf
                 THEN [v |-> IntV(AtoiOf[t]), pos |-> pos + 1, err |-> ""]
                 ELSE [v |-> SymV(t), pos |-> pos + 1, err |-> ""]

\* the loop of the "(" case; lst is the list read so far
parseList(tokens, pos, lst) ==
  IF pos >= Len(tokens)
  THEN [v |-> NilV, pos |-> pos, err |-> "unmatched parenthesis"]
  ELSE IF tokens[pos + 1] = ")"
  THEN [v |-> ListV(lst), pos |-> pos + 1, err |-> ""]
  ELSE LET e == parseSExpression(tokens, pos)
       IN IF e.err # "" THEN e
          ELSE parseList(tokens, e.pos, Append(lst, e.v))

\* readSExpression after tokenize
readSExpression(tokens) ==
  IF Len(tokens) = 0 THEN [v |-> NilV, err |-> ""]
  ELSE LET e == parseSExpression(tokens, 0)
       IN IF e.err # "" THEN [v |-> NilV, err |-> e.err]
          ELSE IF e.pos # Len(tokens)
          THEN [v |-> NilV, err |-> "extra tokens after parse"]
          ELSE [v |-> e.v, err |-> ""]

\* myEval(readSExpression(input), globalAlist), as myTop and the tests call it
readEval(tokens, g) ==
  LET e == readSExpression(tokens)
  IN IF e.err # "" THEN Panic(e.err, g)
     ELSE myEval(e.v, GlobalRef, g, MaxDepth)

(***************************************************************************)
(* The programs: the read-eval-print loop myTop, and the test driver       *)
(* (evalAndIgnoreError for the definitions, then the test cases).          *)
(* pc is "repl" in myTop's loop, "setup" and "cases" in the test driver,   *)
(* "exited" after the exit command and "crashed" when a panic or a fatal   *)
(* error has ended the process.                                            *)
(***************************************************************************)
Init ==
  /\ globalAlist = EmptyAlist
  /\ line = <<>>
  /\ result = NilV
  /\ printed = ""
  /\ err = ""
  /\ pc \in {"repl", "setup"}
  /\ nlines = 0
  /\ operands = <<>>
  /\ input = <<>>

\* one iteration of myTop on a line that is neither empty nor the exit
\* command: read, evaluate, print; a panic is not recovered
TopLine(tokens) ==
  /\ pc = "repl"
  /\ nlines < MaxLines
  /\ tokens # <<>> /\ tokens # <<"exit">>
  /\ LET r == readEval(tokens, globalAlist)
     IN /\ globalAlist' = r.g
        /\ result' = r.v
        /\ err' = r.err
        /\ printed' = IF r.err = "" THEN toLispString(r.v) ELSE ""
        /\ pc' = IF r.err = "" THEN "repl" ELSE "crashed"
  /\ line' = tokens
  /\ nlines' = nlines + 1
  /\ UNCHANGED <<operands, input>>

\* an empty line: continue
TopEmpty ==
  /\ pc = "repl"
  /\ nlines < MaxLines
  /\ line' = <<>>
  /\ nlines' = nlines + 1
  /\ UNCHANGED <<globalAlist, result, printed, err, pc, operands, input>>

\* the exit command: break
TopExit ==
  /\ pc = "repl"
  /\ line' = <<"exit">>
  /\ pc' = "exited"
  /\ UNCHANGED <<globalAlist, result, printed, err, nlines, operands, input>>

\* the end of the input: ReadString fails and myTop panics
TopEOF ==
  /\ pc = "repl"
  /\ err' = "EOF"
  /\ pc' = "crashed"
  /\ UNCHANGED <<globalAlist, line, result, printed, nlines, operands, input>>

\* evalAndIgnoreError: the panic of a failed evaluation is recovered and the
\* driver goes on; the value is dropped
EvalAndIgnoreError(tokens) ==
  /\ pc = "setup"
  /\ nlines < MaxLines
  /\ tokens # <<>>
  /\ LET r == readEval(tokens, globalAlist)
     IN /\ globalAlist' = r.g
        /\ err' = r.err
        /\ pc' = IF r.err = StackOverflow THEN "crashed" ELSE "setup"
  /\ line' = tokens
  /\ result' = NilV
  /\ nlines' = nlines + 1
  /\ UNCHANGED <<printed, operands, input>>

\* one test case of TestLispFunctions: evaluate the input and format the
\* value; a panic ends the test binary
TestCase(tokens) ==
  /\ pc \in {"setup", "cases"}
  /\ nlines < MaxLines
  /\ tokens # <<>>
  /\ LET r == readEval(tokens, globalAlist)
     IN /\ globalAlist' = r.g
        /\ result' = r.v
        /\ err' = r.err
        /\ printed' = IF r.err = "" THEN toLispString(r.v) ELSE ""
        /\ pc' = IF r.err = "" THEN "cases" ELSE "crashed"
  /\ line' = tokens
  /\ nlines' = nlines + 1
  /\ UNCHANGED <<operands, input>>

Step(Lines) ==
  \/ \E tokens \in Lines : TopLine(tokens)
  \/ TopEmpty
  \/ TopExit
  \/ TopEOF
  \/ \E tokens \in Lines : EvalAndIgnoreError(tokens)
  \/ \E tokens \in Lines : TestCase(tokens)

\* a step that has read and evaluated a line
Evaluated == nlines' = nlines + 1 /\ line' # <<>>

\* the value of a symbol in the global alist: its binding, or the symbol
GlobalVal(g, str) == IF str \in DOMAIN g THEN g[str] ELSE SymV(str)

\* result holds the value of line: myTop or a test case has evaluated it
\* without a panic (evalAndIgnoreError drops the value)
Shown == err = "" /\ pc \in {"repl", "cases"} /\ line # <<>>

(***************************************************************************)
(* Scoping: sessions over the lines below.                                 *)
(***************************************************************************)
SetqX1 == <<"(", "setq", "x", "1", ")">>
DefunF == <<"(", "defun", "f", "(", ")", "x", ")">>
DefunG == <<"(", "defun", "g", "(", "x", ")",
            "(", "list", "x", "(", "f", ")", ")", ")">>
LetCallF == <<"(", "let", "(", "(", "x", "2", ")", ")", "(", "f", ")", ")">>
LetStarCallG == <<"(", "let*", "(", "(", "x", "3", ")", ")",
                  "(", "g", "4", ")", ")">>
CallG == <<"(", "g", "5", ")">>
LetX == <<"(", "let", "(", "(", "x", "2", ")", ")", "x", ")">>
LetSetqY == <<"(", "let", "(", "(", "x", "5", ")", ")",
              "(", "setq", "y", "x", ")", ")">>
DefunH == <<"(", "defun", "h", "(", "x", ")",
            "(", "setq", "z", "x", ")", ")">>
CallH == <<"(", "h", "7", ")">>
LetPar == <<"(", "let", "(", "(", "x", "2", ")", "(", "y", "x", ")", ")",
            "y", ")">>
LetSeq == <<"(", "let*", "(", "(", "x", "2", ")", "(", "y", "x", ")", ")",
            "y", ")">>
NestedPar == <<"(", "let", "(", "(", "x", "3", ")", ")">> \o LetPar \o <<")">>
NestedSeq == <<"(", "let", "(", "(", "x", "3", ")", ")">> \o LetSeq \o <<")">>
LetRestore == <<"(", "let", "(", "(", "x", "3", ")", ")">> \o LetX
                \o <<"x", ")">>

ScopeLines == {SetqX1, DefunF, DefunG, LetCallF, LetStarCallG, CallG, LetX,
               LetSetqY, DefunH, CallH, LetPar, LetSeq, NestedPar, NestedSeq,
               LetRestore}

NextScope == Step(ScopeLines)

SpecScope == Init /\ [][NextScope]_vars

\* C1: a function called from a let or let* body, or from the body of
\* another function, reads a free identifier from the global alist and never
\* from its caller: f, whose body is the free x, returns the global value of
\* x (or the symbol x when the global alist does not bind it) under a let
\* binding of x, and under g's parameter x inside a let* binding of x, while
\* g itself sees its own parameter.
C1_FunctionSeesGlobal ==
  Shown =>
    /\ line = LetCallF => result = GlobalVal(globalAlist, "x")
    /\ line = LetStarCallG =>
         result = ListV(<<IntV(4), GlobalVal(globalAlist, "x")>>)
    /\ line = CallG =>
         result = ListV(<<IntV(5), GlobalVal(globalAlist, "x")>>)

C1_Witness ==
  /\ Shown
  /\ line = LetStarCallG
  /\ "x" \in DOMAIN globalAlist
  /\ result = ListV(<<IntV(4), IntV(1)>>)

\* C4: setq evaluates its value expression in the global alist, also inside a
\* let body and inside a function body: an identifier bound only by the let,
\* or only as the parameter, is read from the global alist (or stands for
\* itself when the global alist does not bind it); the value is stored under
\* the variable in the global alist and returned.
C4_SetqEvaluatesInGlobal ==
  Shown =>
    /\ line = LetSetqY =>
         /\ result = GlobalVal(globalAlist, "x")
         /\ "y" \in DOMAIN globalAlist /\ globalAlist["y"] = result
    /\ line = CallH =>
         /\ result = GlobalVal(globalAlist, "x")
         /\ "z" \in DOMAIN globalAlist /\ globalAlist["z"] = result

C4_Witness ==
  /\ Shown
  /\ line = CallH
  /\ "x" \notin DOMAIN globalAlist
  /\ result = SymV("x")
  /\ globalAlist["z"] = SymV("x")

\* C5: let binds in parallel and let* in sequence.  With the bindings
\* ((x 2) (y x)), the let gives y the caller's value of x (the global one at
\* the top level, 3 inside a let that binds x to 3) and the let* gives it 2;
\* the last body value is returned; after an inner let the caller's x is
\* still 3; and none of these lines changes the global alist.
LetLines == {LetX, LetPar, LetSeq, NestedPar, NestedSeq, LetRestore}

LetValue(tokens, g) ==
  CASE tokens = LetX -> IntV(2)
    [] tokens = LetPar -> GlobalVal(g, "x")
    [] tokens = LetSeq -> IntV(2)
    [] tokens = NestedPar -> IntV(3)
    [] tokens = NestedSeq -> IntV(2)
    [] tokens = LetRestore -> IntV(3)

C5_LetParallelLetStarSequential ==
  [][(Evaluated /\ line' \in LetLines) =>
       /\ err' = ""
       /\ globalAlist' = globalAlist
       /\ pc' \in {"repl", "cases"} => result' = LetValue(line', globalAlist)]_vars

C5_Witness ==
  /\ Shown
  /\ line = LetPar
  /\ "x" \in DOMAIN globalAlist
  /\ result = IntV(1)

(***************************************************************************)
(* Spellings: sessions that bind a name under one spelling and use it      *)
(* under another.                                                          *)
(***************************************************************************)
\* (setq abc 1)
SetqAbc1 ==
  <<"(", "setq", "abc", "1", ")">>

\* (SETQ ABC 2)
SetqABC2 ==
  <<"(", "SETQ", "ABC", "2", ")">>

\* ABC
EvalABC ==
  <<"ABC">>

\* Abc
EvalAbc ==
  <<"Abc">>

\* (defun foo () 7)
DefunFoo ==
  <<"(", "defun", "foo", "(", ")", "7", ")">>

\* (FOO)
CallFOO ==
  <<"(", "FOO", ")">>

\* (foo)
CallFoo ==
  <<"(", "foo", ")">>

\* (let ((abc 5)) ABC)
LetAbc ==
  <<"(", "let", "(", "(", "abc", "5", ")", ")", "ABC", ")">>

\* (defun h (abc) ABC)
DefunHAbc ==
  <<"(", "defun", "h", "(", "abc", ")", "ABC", ")">>

\* (h 3)
CallH3 ==
  <<"(", "h", "3", ")">>


CaseLines == {SetqAbc1, SetqABC2, EvalABC, EvalAbc, DefunFoo, CallFOO,
              CallFoo, LetAbc, DefunHAbc, CallH3}

NextCase == Step(CaseLines)

SpecCase == Init /\ [][NextCase]_vars

\* C2: the keys of an environment are case-insensitive.  No two keys of the
\* global alist are spellings of one symbol (a rebinding under another
\* spelling overwrites the entry); ABC and Abc evaluate to the value bound
\* under any spelling of abc; (FOO) calls the function defined as foo; a let
\* binding and a parameter named abc are found as ABC.
C2_CaseInsensitiveKeys ==
  /\ \A s1, s2 \in DOMAIN globalAlist : ToUpper(s1) = ToUpper(s2) => s1 = s2
  /\ Shown /\ line \in {EvalABC, EvalAbc} =>
       \A str \in DOMAIN globalAlist :
          ToUpper(str) = "ABC" => result = globalAlist[str]
  /\ line = CallFOO /\ (\E str \in DOMAIN globalAlist : ToUpper(str) = "FOO") =>
       err # "Unknown function: FOO"
  /\ Shown /\ line = LetAbc => result = IntV(5)
  /\ Shown /\ line = CallH3 => result = IntV(3)

(***************************************************************************)
(* The frame of the global alist: sessions over the special forms, the     *)
(* primitives and calls of user functions, with and without setq and defun.*)
(***************************************************************************)
\* (quote (a b))
QuoteAB ==
  <<"(", "quote", "(", "a", "b", ")", ")">>

\* (cond (nil 1) (t 2) (t 3))
CondTest ==
  <<"(", "cond", "(", "nil", "1", ")", "(", "t", "2", ")", "(", "t", "3",
    ")", ")">>

\* (eval (list 'car ''(a b)))
EvalBuilt ==
  <<"(", "eval", "(", "list", "'", "car", "'", "'", "(", "a", "b", ")", ")",
    ")">>

\* (apply 'car '((a b)))
ApplyCar ==
  <<"(", "apply", "'", "car", "'", "(", "(", "a", "b", ")", ")", ")">>

\* (and t (or nil (not nil)))
AndOrNot ==
  <<"(", "and", "t", "(", "or", "nil", "(", "not", "nil", ")", ")", ")">>

\* (if nil 1 2)
IfElse ==
  <<"(", "if", "nil", "1", "2", ")">>

\* (cons x '(2))
ConsOne ==
  <<"(", "cons", "x", "'", "(", "2", ")", ")">>

\* (setq x 2)
SetqX2 ==
  <<"(", "setq", "x", "2", ")">>


FrameLines == {QuoteAB, CondTest, EvalBuilt, ApplyCar, AndOrNot, IfElse,
               ConsOne, LetX, LetSeq, LetCallF, CallG, CallH,
               SetqX1, SetqX2, DefunF, DefunG, DefunH}

NextFrame == Step(FrameLines)

SpecFrame == Init /\ [][NextFrame]_vars

\* the symbols that occur in a value
RECURSIVE SymsOf(_)
SymsOf(v) ==
  CASE v.k = "string" -> {v.s}
    [] v.k = "list" -> UNION {SymsOf(v.l[i]) : i \in 1..Len(v.l)}
    [] OTHER -> {}

\* the symbols an evaluation can meet: those of the line, and those of the
\* global values of the symbols it can meet
RECURSIVE Reachable(_, _)
Reachable(syms, g) ==
  LET more == syms \cup UNION {SymsOf(g[str]) : str \in syms \cap DOMAIN g}
  IN IF more = syms THEN syms ELSE Reachable(more, g)

LineSyms(tokens) == {tokens[i] : i \in 1..Len(tokens)}

\* the evaluation of the line can meet a setq or a defun
StoreReachable(tokens, g) ==
  \E str \in Reachable(LineSyms(tokens), g) : ToUpper(str) \in {"SETQ", "DEFUN"}

\* C3: only setq and defun change the global alist.  A line whose evaluation
\* meets no setq and no defun, in the line or in the body of a function it can
\* call, leaves the global alist as it is (a let, let* or parameter binding
\* never enters it); no binding is ever removed; and a binding changes or
\* appears only under a name that the line, or a function body it can reach
\* together with a setq or defun, spells out.
C3_OnlySetqDefunWrite ==
  [][Evaluated =>
       /\ DOMAIN globalAlist \subseteq DOMAIN globalAlist'
       /\ globalAlist' # globalAlist => StoreReachable(line', globalAlist)
       /\ \A key \in DOMAIN globalAlist' :
            (key \notin DOMAIN globalAlist \/ globalAlist'[key] # globalAlist[key])
              => key \in Reachable(LineSyms(line'), globalAlist)]_vars

C3_Witness ==
  /\ Shown
  /\ line = LetCallF
  /\ "x" \in DOMAIN globalAlist
  /\ globalAlist["x"] = IntV(1)
  /\ result = IntV(1)

(***************************************************************************)
(* Failures: sessions with lines that fail in the reader or the evaluator. *)
(***************************************************************************)
\* (setq a 1)
SetqA1 ==
  <<"(", "setq", "a", "1", ")">>

\* (setq a)
SetqArity ==
  <<"(", "setq", "a", ")">>

\* (setq (a) 1)
SetqName ==
  <<"(", "setq", "(", "a", ")", "1", ")">>

\* (defun f (x))
DefunArity ==
  <<"(", "defun", "f", "(", "x", ")", ")">>

\* (defun (f) (x) x)
DefunName ==
  <<"(", "defun", "(", "f", ")", "(", "x", ")", "x", ")">>

\* (defun f x x)
DefunFormals ==
  <<"(", "defun", "f", "x", "x", ")">>

\* (setq a (car))
SetqValueFails ==
  <<"(", "setq", "a", "(", "car", ")", ")">>

\* (setq a (+ (setq b 1) 'x))
SetqNestedFails ==
  <<"(", "setq", "a", "(", "+", "(", "setq", "b", "1", ")", "'", "x", ")",
    ")">>

\* )
CloseParen ==
  <<")">>

\* (setq a
Unmatched ==
  <<"(", "setq", "a">>

\* a b
ExtraTokens ==
  <<"a", "b">>

\* (f 1)
CallUnknown ==
  <<"(", "f", "1", ")">>

\* a
EvalA ==
  <<"a">>


FailLines == {SetqA1, SetqArity, SetqName, DefunArity, DefunName,
              DefunFormals, SetqValueFails, SetqNestedFails, CloseParen,
              Unmatched, ExtraTokens, CallUnknown, EvalA}

NextFail == Step(FailLines)

SpecFail == Init /\ [][NextFail]_vars

\* the line is a setq or a defun form
IsStoreForm(tokens) ==
  /\ Len(tokens) >= 2
  /\ tokens[1] = "("
  /\ ToUpper(tokens[2]) \in {"SETQ", "DEFUN"}

\* C6: no partial mutation on failure.  A setq or defun form that fails
\* (argument count, name that is not a symbol, malformed formals, failure in
\* the value expression of the setq) adds and changes no binding of the
\* global alist.
C6_FailedStoreChangesNothing ==
  [][(Evaluated /\ err' # "" /\ IsStoreForm(line')) =>
       globalAlist' = globalAlist]_vars

\* C6, amended: a setq or defun form that fails performs no store of its own.
\* When the evaluation of what follows the form's head meets no setq and no
\* defun, the global alist is left as it was; when the value expression of
\* the failing setq holds a setq that completes before the failure,
\* (setq a (+ (setq b 1) 'x)), the global alist is left as that inner setq
\* left it, with b bound and a untouched.
C6_FailedStoreStoresNothingItself ==
  [][(Evaluated /\ err' # "" /\ IsStoreForm(line')) =>
       /\ ~StoreReachable(SubSeq(line', 3, Len(line')), globalAlist) =>
            globalAlist' = globalAlist
       /\ line' = SetqNestedFails =>
            globalAlist' = Put(globalAlist, "b", IntV(1))]_vars

C6_Witness ==
  /\ err = "+ expects integers"
  /\ pc = "setup"
  /\ line = SetqNestedFails
  /\ "b" \in DOMAIN globalAlist
  /\ "a" \notin DOMAIN globalAlist

\* C7: failure isolation per line.  When the reading or the evaluation of a
\* line fails in the read-eval-print loop, the loop is still running
\* afterwards, ready for the next line, and the bindings of the earlier lines
\* are still there.
C7_LoopSurvivesFailure ==
  [][(pc = "repl" /\ Evaluated /\ err' # "") =>
       /\ pc' = "repl"
       /\ \A key \in DOMAIN globalAlist :
            key \in DOMAIN globalAlist' /\ globalAlist'[key] = globalAlist[key]]_vars

(***************************************************************************)
(* cond: every clause stores when its condition or its body is evaluated.  *)
(***************************************************************************)
\* the spellings of the values of the conditions
CondVals == {"nil", "1"}

\* (cond ((setq a v1) (setq x 1)) ((setq b v2) (setq y 2) (setq z 3))
\*       ((setq c v3)))
CondLine(v1, v2, v3) ==
  <<"(", "cond",
    "(", "(", "setq", "a", v1, ")", "(", "setq", "x", "1", ")", ")",
    "(", "(", "setq", "b", v2, ")", "(", "setq", "y", "2", ")",
         "(", "setq", "z", "3", ")", ")",
    "(", "(", "setq", "c", v3, ")", ")", ")">>

CondLines ==
  {CondLine(v1, v2, v3) : v1 \in CondVals, v2 \in CondVals, v3 \in CondVals}
    \cup {CondTest, EvalA}

NextCond == Step(CondLines)

SpecCond == Init /\ [][NextCond]_vars

CondVal(v) == IF v = "nil" THEN NilV ELSE IntV(1)

\* what the cond line is to store: the conditions up to the first one that is
\* not Nil, and the body of that clause
CondStores(v1, v2, v3, g) ==
  IF v1 # "nil" THEN Put(Put(g, "a", CondVal(v1)), "x", IntV(1))
  ELSE IF v2 # "nil"
  THEN Put(Put(Put(Put(g, "a", NilV), "b", CondVal(v2)), "y", IntV(2)),
           "z", IntV(3))
  ELSE Put(Put(Put(g, "a", NilV), "b", NilV), "c", CondVal(v3))

\* and its value: the last form of the selected clause, Nil when that clause
\* has no further form or no clause is selected
CondResult(v1, v2, v3) ==
  IF v1 # "nil" THEN IntV(1)
  ELSE IF v2 # "nil" THEN IntV(3)
  ELSE NilV

\* C8: cond evaluates the conditions from left to right and stops at the
\* first one that is not Nil: the conditions after it and the bodies of the
\* other clauses are not evaluated (their setq never happens), the forms of
\* the selected clause are evaluated in order and the last value is the
\* result, Nil when the clause has no further form or no condition holds;
\* (cond (nil 1) (t 2) (t 3)) is 2.
C8_CondStopsAtFirstTrue ==
  [][Evaluated =>
       /\ \A v1 \in CondVals, v2 \in CondVals, v3 \in CondVals :
            line' = CondLine(v1, v2, v3) =>
              /\ err' = ""
              /\ globalAlist' = CondStores(v1, v2, v3, globalAlist)
              /\ pc' \in {"repl", "cases"} => result' = CondResult(v1, v2, v3)
       /\ line' = CondTest =>
            /\ err' = ""
            /\ globalAlist' = globalAlist
            /\ pc' \in {"repl", "cases"} => result' = IntV(2)]_vars

C8_Witness ==
  /\ Shown
  /\ line = CondLine("nil", "1", "1")
  /\ result = IntV(3)
  /\ DOMAIN globalAlist = {"a", "b", "y", "z"}

(***************************************************************************)
(* eq and equal, applied to the values of the expressions below.           *)
(***************************************************************************)
\* nil
ExprNil ==
  <<"nil">>

\* 'nil
ExprQuotedNil ==
  <<"'", "nil">>

\* t
ExprT ==
  <<"t">>

\* 'a
ExprQa ==
  <<"'", "a">>

\* 'A
ExprQA ==
  <<"'", "A">>

\* 'b
ExprQb ==
  <<"'", "b">>

\* 1
Expr1 ==
  <<"1">>

\* 2
Expr2 ==
  <<"2">>

\* '(a b)
ExprQab ==
  <<"'", "(", "a", "b", ")">>

\* '(A B)
ExprQAB ==
  <<"'", "(", "A", "B", ")">>

\* '(a 1)
ExprQa1 ==
  <<"'", "(", "a", "1", ")">>

\* '()
ExprQEmpty ==
  <<"'", "(", ")">>

\* '(nil)
ExprQListNil ==
  <<"'", "(", "nil", ")">>

\* (list nil)
ExprListNil ==
  <<"(", "list", "nil", ")">>

\* '(a (b))
ExprQNested ==
  <<"'", "(", "a", "(", "b", ")", ")">>


ValueExprs == {ExprNil, ExprQuotedNil, ExprT, ExprQa, ExprQA, ExprQb, Expr1,
               Expr2, ExprQab, ExprQAB, ExprQa1, ExprQEmpty, ExprQListNil,
               ExprListNil, ExprQNested}

\* the values obtained by reading and evaluating them
Values == {readEval(tokens, EmptyAlist).v : tokens \in ValueExprs}

PrimNames == {"eq", "equal"}

InitPrim ==
  /\ globalAlist = EmptyAlist
  /\ line = <<>>
  /\ result = NilV
  /\ printed = ""
  /\ err = ""
  /\ pc = "prim"
  /\ nlines = 0
  /\ operands \in {<<x, y, z>> : x \in Values, y \in Values, z \in Values}
  /\ input = <<>>

\* myApplyAtom called with a primitive's name and two evaluated operands
ApplyPrim(name) ==
  /\ pc = "prim"
  /\ LET r == myApplyAtom(name, SubSeq(operands, 1, 2), GlobalRef,
                          globalAlist, MaxDepth)
     IN /\ result' = r.v
        /\ err' = r.err
        /\ printed' = IF r.err = "" THEN toLispString(r.v) ELSE ""
  /\ line' = <<name>>
  /\ pc' = "done"
  /\ UNCHANGED <<globalAlist, nlines, operands, input>>

NextPrim == \E name \in PrimNames : ApplyPrim(name)

SpecPrim == InitPrim /\ [][NextPrim]_vars

EqOf(x, y) == myApplyAtom("eq", <<x, y>>, GlobalRef, EmptyAlist, MaxDepth).v

EqualOf(x, y) ==
  myApplyAtom("equal", <<x, y>>, GlobalRef, EmptyAlist, MaxDepth).v = SymV("T")

\* C9: eq is reflexive and symmetric on atoms: T for Nil with Nil, for two
\* spellings of one symbol and for one integer twice, never T for symbols or
\* integers that differ; and it is Nil as soon as one operand is a list, also
\* for a list with itself and for two lists that equal holds of.
C9_EqOnAtomsOnly ==
  /\ \A i \in 1..Len(operands), j \in 1..Len(operands) :
       LET x == operands[i]
           y == operands[j]
       IN /\ x.k # "list" => EqOf(x, x) = SymV("T")
          /\ (x.k # "list" /\ y.k # "list") => EqOf(x, y) = EqOf(y, x)
          /\ (x.k = "string" /\ y.k = "string" /\ ~isNil(x)) =>
               (EqOf(x, y) = SymV("T") <=> ToUpper(x.s) = ToUpper(y.s))
          /\ (x.k = "int" /\ y.k = "int") =>
               (EqOf(x, y) = SymV("T") <=> x.n = y.n)
          /\ (x.k = "list" \/ y.k = "list") =>
               EqOf(x, y) = NilV /\ EqOf(y, x) = NilV
  /\ (pc = "done" /\ line = <<"eq">>
        /\ (operands[1].k = "list" \/ operands[2].k = "list")) =>
       err = "" /\ result = NilV

C9_Witness ==
  /\ pc = "done"
  /\ line = <<"eq">>
  /\ operands[1].k = "list"
  /\ operands[1] = operands[2]
  /\ EqualOf(operands[1], operands[2])
  /\ result = NilV

\* a value with its symbols in upper case
RECURSIVE UpValue(_)
UpValue(v) ==
  CASE v.k = "string" -> SymV(ToUpper(v.s))
    [] v.k = "list" -> ListV([i \in 1..Len(v.l) |-> UpValue(v.l[i])])
    [] OTHER -> v

\* the printed form, up to the case of the symbols
PrintUp(v) == toLispString(UpValue(v))

\* C10: equal is an equivalence relation over printed-identical structures:
\* it is reflexive, symmetric and transitive, it holds of any two values whose
\* printed forms are identical up to the case of the symbols (of Nil read as
\* nil and as 'nil), and two values it holds of print identically up to case.
C10_EqualIsPrintedIdentity ==
  (pc = "done" /\ line = <<"equal">>) =>
    /\ PrintUp(operands[1]) = PrintUp(operands[2]) => result = SymV("T")
    /\ result = SymV("T") => PrintUp(operands[1]) = PrintUp(operands[2])
    /\ \A i \in 1..3, j \in 1..3, m \in 1..3 :
         LET x == operands[i]
             y == operands[j]
             z == operands[m]
         IN /\ EqualOf(x, x)
            /\ EqualOf(x, y) => EqualOf(y, x)
            /\ (EqualOf(x, y) /\ EqualOf(y, z)) => EqualOf(x, z)
            /\ PrintUp(x) = PrintUp(y) => EqualOf(x, y)
            /\ EqualOf(x, y) => PrintUp(x) = PrintUp(y)

(***************************************************************************)
(* The reader and the printer on their own: a text is read and the value   *)
(* read is printed, without evaluation.                                    *)
(***************************************************************************)
\* the longest sequence of tokens of the texts made of every token sequence
MaxToks == 5

\* the string of a sequence of characters
RECURSIVE Str(_)
Str(chars) == IF Len(chars) = 0 THEN "" ELSE Head(chars) \o Str(Tail(chars))

\* the tokens, each as its characters, written with the spacing of the
\* printer: no space after an opening parenthesis or a quote, none before a
\* closing parenthesis, one space between two tokens otherwise
RECURSIVE CanonText(_)
CanonText(toks) ==
  IF Len(toks) = 0 THEN <<>>
  ELSE IF Len(toks) = 1 THEN toks[1]
  ELSE toks[1]
       \o (IF toks[1] \in {<<"(">>, <<"'">>} \/ toks[2] = <<")">>
           THEN <<>> ELSE <<" ">>)
       \o CanonText(Tail(toks))

\* the tokens with a space between any two, and the newline that ends a line
RECURSIVE SpacedText(_)
SpacedText(toks) ==
  IF Len(toks) = 0 THEN <<"\n">>
  ELSE IF Len(toks) = 1 THEN <<toks[1], "\n">>
  ELSE <<toks[1], " ">> \o SpacedText(Tail(toks))

\* literal atoms: symbols, spellings of t and nil, integer literals in and
\* out of the form the printer writes, a literal beyond the range of an int
LitAtoms ==
  {<<"a">>, <<"B">>, <<"x", "1">>, <<"-">>, <<"t">>, <<"N", "i", "l">>,
   <<"0">>, <<"1", "2">>, <<"-", "3">>, <<"0", "0", "7">>, <<"-", "0">>,
   <<"+", "1">>,
   <<"9", "9", "9", "9", "9", "9", "9", "9", "9", "9",
     "9", "9", "9", "9", "9", "9", "9", "9", "9", "9">>}

InnerAtoms == {<<"a">>, <<"t">>, <<"7">>}

\* ( ), (x) and (x y) over the atoms given, as token sequences
ListsOver(elems) ==
  {<<<<"(">>, <<")">>>>}
    \cup {<<<<"(">>>> \o x \o <<<<")">>>> : x \in elems}
    \cup {<<<<"(">>>> \o x \o y \o <<<<")">>>> : x \in elems, y \in elems}

\* the token sequences of the literal texts: an atom, or a list of atoms and
\* of lists of atoms
LiteralSeqs ==
  LET atoms == {<<a>> : a \in LitAtoms}
      inner == ListsOver({<<a>> : a \in InnerAtoms})
  IN atoms \cup ListsOver(atoms \cup inner)

ParseToks == {"(", ")", "'", "a", "1"}

\* every sequence of 1 to MaxToks tokens
TokenSeqs == UNION {[1..n -> ParseToks] : n \in 1..MaxToks}

Texts ==
  {CanonText(toks) : toks \in LiteralSeqs}
    \cup {SpacedText(toks) : toks \in TokenSeqs}

InitRead ==
  /\ globalAlist = EmptyAlist
  /\ line = <<>>
  /\ result = NilV
  /\ printed = ""
  /\ err = ""
  /\ pc = "read"
  /\ nlines = 0
  /\ operands = <<>>
  /\ input \in Texts

\* toLispString(readSExpression(input)): the text is tokenized and parsed and
\* the value is printed
ReadPrint ==
  /\ pc = "read"
  /\ LET tokens == tokenize(input)
         r == readSExpression(tokens)
     IN /\ line' = tokens
        /\ result' = r.v
        /\ err' = r.err
        /\ printed' = IF r.err = "" THEN toLispString(r.v) ELSE ""
  /\ pc' = "done"
  /\ UNCHANGED <<globalAlist, nlines, operands, input>>

NextRead == ReadPrint

SpecRead == InitRead /\ [][NextRead]_vars

\* the strings given, written with the spacing of the printer
RECURSIVE CanonStr(_)
CanonStr(strs) ==
  IF Len(strs) = 0 THEN ""
  ELSE IF Len(strs) = 1 THEN strs[1]
  ELSE strs[1]
       \o (IF strs[1] \in {"(", "'"} \/ strs[2] = ")" THEN "" ELSE " ")
       \o CanonStr(Tail(strs))

\* a token spelling t or nil in any case is printed as T or NIL
ReservedForm(str) ==
  IF ToUpper(str) = "T" THEN "T"
  ELSE IF ToUpper(str) = "NIL" THEN "NIL"
  ELSE str

DigitOf ==
  [c \in {"0", "1", "2", "3", "4", "5", "6", "7", "8", "9"} |->
     CASE c = "0" -> 0 [] c = "1" -> 1 [] c = "2" -> 2 [] c = "3" -> 3
       [] c = "4" -> 4 [] c = "5" -> 5 [] c = "6" -> 6 [] c = "7" -> 7
       [] c = "8" -> 8 [] c = "9" -> 9]

\* the digits after the sign of a token
DigitsPart(tok) == IF Head(tok) \in {"+", "-"} THEN Tail(tok) ELSE tok

\* a token that is an optional sign, + or -, and digits, within the range of
\* an int (every number of up to 18 digits is; the texts have none of 19)
IsSignedDigits(tok) ==
  /\ Len(DigitsPart(tok)) \in 1..18
  /\ \A i \in 1..Len(DigitsPart(tok)) : DigitsPart(tok)[i] \in DOMAIN DigitOf

RECURSIVE DigitsValue(_, _)
DigitsValue(digits, acc) ==
  IF Len(digits) = 0 THEN acc
  ELSE DigitsValue(Tail(digits), 10 * acc + DigitOf[Head(digits)])

\* the decimal form of the number a token of sign and digits denotes
DecimalForm(tok) ==
  ToString((IF Head(tok) = "-" THEN -1 ELSE 1) * DigitsValue(DigitsPart(tok), 0))

RECURSIVE IsExpr(_)
RECURSIVE IsExprs(_)
IsExpr(toks) ==
  /\ Len(toks) >= 1
  /\ \/ Len(toks) = 1 /\ toks[1] \notin {"(", ")", "'"}
     \/ toks[1] = "'" /\ IsExpr(Tail(toks))
     \/ /\ Len(toks) >= 2
        /\ toks[1] = "(" /\ toks[Len(toks)] = ")"
        /\ IsExprs(SubSeq(toks, 2, Len(toks) - 1))

IsExprs(toks) ==
  \/ Len(toks) = 0
  \/ \E k \in 1..Len(toks) :
        IsExpr(SubSeq(toks, 1, k)) /\ IsExprs(SubSeq(toks, k + 1, Len(toks)))

\* a complete expression is followed by further tokens
HasTrailingTokens(toks) ==
  \E k \in 1..(Len(toks) - 1) : IsExpr(SubSeq(toks, 1, k))

\* no expression is complete at or before the end of the tokens
Incomplete(toks) == \A k \in 1..Len(toks) : ~IsExpr(SubSeq(toks, 1, k))

\* a closing parenthesis where an expression must start: as the first token,
\* or right after a quote
CloseAtStart(toks) ==
  \E i \in 1..Len(toks) : toks[i] = ")" /\ (i = 1 \/ toks[i - 1] = "'")

\* the opening parentheses without a closing one
OpenLists(toks) ==
  Cardinality({i \in 1..Len(toks) : toks[i] = "("})
    - Cardinality({i \in 1..Len(toks) : toks[i] = ")"})

\* C12: the reader reads exactly one expression per call.  It returns a value
\* exactly when the tokens are one complete expression; it fails with
\* "extra tokens after parse" when tokens follow the first complete
\* expression, with "unexpected )" when a closing parenthesis stands where an
\* expression must start, with "unmatched parenthesis" when the tokens end
\* inside an open list, and it fails as well when they end right after a
\* quote; 'E is read as the list (quote E).
C12_ReadsExactlyOneExpression ==
  (pc = "done" /\ line # <<>>) =>
    /\ err = "" <=> IsExpr(line)
    /\ HasTrailingTokens(line) => err = "extra tokens after parse"
    /\ (Incomplete(line) /\ CloseAtStart(line)) => err = "unexpected )"
    /\ (Incomplete(line) /\ ~CloseAtStart(line) /\ OpenLists(line) > 0) =>
         err = "unmatched parenthesis"
    /\ (err = "" /\ line[1] = "'") =>
         /\ IsExpr(Tail(line))
         /\ result = ListV(<<SymV("quote"), readSExpression(Tail(line)).v>>)

(***************************************************************************)
(* Symbols as values: sessions that bind names, the reserved ones          *)
(* included, globally, by let and let* and as parameters, and read them.   *)
(***************************************************************************)
\* (setq y 2)
SetqY2 ==
  <<"(", "setq", "y", "2", ")">>

\* (setq t 5)
SetqT5 ==
  <<"(", "setq", "t", "5", ")">>

\* (setq Nil 7)
SetqNil7 ==
  <<"(", "setq", "Nil", "7", ")">>

\* x
EvalX ==
  <<"x">>

\* t
EvalLowerT ==
  <<"t">>

\* T
EvalUpperT ==
  <<"T">>

\* Nil
EvalMixedNil ==
  <<"Nil">>

\* z
EvalZ ==
  <<"z">>

\* (let ((x 2)) y)
LetXReadsY ==
  <<"(", "let", "(", "(", "x", "2", ")", ")", "y", ")">>

\* (let ((t 3) (nil 4)) (list t nil x))
LetReserved ==
  <<"(", "let", "(", "(", "t", "3", ")", "(", "nil", "4", ")", ")", "(",
    "list", "t", "nil", "x", ")", ")">>

\* (let* ((T 3) (x t)) (list T x))
LetStarReserved ==
  <<"(", "let*", "(", "(", "T", "3", ")", "(", "x", "t", ")", ")", "(",
    "list", "T", "x", ")", ")">>

\* (defun f (t nil x) (list t nil x y))
DefunReserved ==
  <<"(", "defun", "f", "(", "t", "nil", "x", ")", "(", "list", "t", "nil",
    "x", "y", ")", ")">>

\* (f 1 2 3)
CallReserved ==
  <<"(", "f", "1", "2", "3", ")">>

\* (defun g () (setq y 9) y)
DefunSetqRead ==
  <<"(", "defun", "g", "(", ")", "(", "setq", "y", "9", ")", "y", ")">>

\* (g)
CallSetqRead ==
  <<"(", "g", ")">>


SymLines == {SetqX1, SetqY2, SetqT5, SetqNil7, EvalX, EvalLowerT, EvalUpperT,
             EvalMixedNil, EvalZ, LetX, LetXReadsY, LetReserved,
             LetStarReserved, DefunReserved, CallReserved, DefunSetqRead,
             CallSetqRead}

NextSym == Step(SymLines)

SpecSym == Init /\ [][NextSym]_vars

\* the lines that read symbols and that no missing definition can fail
SymReadLines == {EvalX, EvalLowerT, EvalUpperT, EvalMixedNil, EvalZ, LetX,
                 LetXReadsY, LetReserved, LetStarReserved}

\* the value of a line, the global alist being g before it
SymValue(tokens, g) ==
  CASE tokens = EvalX -> GlobalVal(g, "x")
    [] tokens \in {EvalLowerT, EvalUpperT} -> SymV("T")
    [] tokens = EvalMixedNil -> NilV
    [] tokens = EvalZ -> SymV("z")
    [] tokens = LetX -> IntV(2)
    [] tokens = LetXReadsY -> GlobalVal(g, "y")
    [] tokens = LetReserved ->
         ListV(<<SymV("T"), NilV, GlobalVal(g, "x")>>)
    [] tokens = LetStarReserved -> ListV(<<SymV("T"), SymV("T")>>)
    [] tokens = CallReserved ->
         ListV(<<SymV("T"), NilV, IntV(3), GlobalVal(g, "y")>>)
    [] tokens = CallSetqRead -> IF "y" \in DOMAIN g THEN g["y"] ELSE IntV(9)

\* C13: the value of a symbol is settled in a fixed order that no binding
\* changes.  t, T and Nil evaluate to T and Nil also after a setq, inside a
\* let or let* and inside a function that binds that name; any other symbol
\* evaluates to the value the let, the let* or the call gave it (for a call,
\* its parameter, or else the global value the name had when the call built
\* its alist, also after a setq of the body), else to its value in the global
\* alist, else to itself; reading a symbol never fails.
C13_SymbolLookupOrder ==
  [][Evaluated =>
       /\ line' \in SymReadLines => err' = ""
       /\ (line' \in {CallReserved, CallSetqRead} /\ err' # "") =>
            /\ err' \in {"Unknown function: f", "Unknown function: g"}
            /\ globalAlist' = globalAlist
       /\ (line' \in SymReadLines \cup {CallReserved, CallSetqRead}
             /\ err' = "" /\ pc' \in {"repl", "cases"}) =>
            result' = SymValue(line', globalAlist)
       /\ (line' \in SymReadLines \cup {CallReserved}) =>
            globalAlist' = globalAlist]_vars

\* with t and y bound in the global alist, (f 1 2 3) binds t, nil and x and
\* still reads T and NIL
C13_Witness ==
  /\ Shown
  /\ line = CallReserved
  /\ {"t", "y"} \subseteq DOMAIN globalAlist
  /\ globalAlist["t"] = IntV(5)
  /\ result = ListV(<<SymV("T"), NilV, IntV(3), IntV(2)>>)

(***************************************************************************)
(* Dispatch: sessions that bind the names of built-ins and call functions  *)
(* bound globally, by let and as a parameter.                              *)
(***************************************************************************)
\* (defun car (x) 7)
DefunCar ==
  <<"(", "defun", "car", "(", "x", ")", "7", ")">>

\* (defun if (a b c) 7)
DefunIfForm ==
  <<"(", "defun", "if", "(", "a", "b", "c", ")", "7", ")">>

\* (setq + 5)
SetqPlus ==
  <<"(", "setq", "+", "5", ")">>

\* (car '(1 2))
CallCar ==
  <<"(", "car", "'", "(", "1", "2", ")", ")">>

\* (+ 1 2)
CallPlus ==
  <<"(", "+", "1", "2", ")">>

\* (setq g '((x) (list x x)))
SetqGFn ==
  <<"(", "setq", "g", "'", "(", "(", "x", ")", "(", "list", "x", "x", ")",
    ")", ")">>

\* (setq g 3)
SetqG3 ==
  <<"(", "setq", "g", "3", ")">>

\* (g 1)
CallG1 ==
  <<"(", "g", "1", ")">>

\* (g 1 2)
CallG2 ==
  <<"(", "g", "1", "2", ")">>

\* (let ((g '((x) x))) (g 1))
LetGCall ==
  <<"(", "let", "(", "(", "g", "'", "(", "(", "x", ")", "x", ")", ")", ")",
    "(", "g", "1", ")", ")">>

\* (defun h (g) (g 1))
DefunHCallsG ==
  <<"(", "defun", "h", "(", "g", ")", "(", "g", "1", ")", ")">>

\* (h '((x) x))
CallHWithFn ==
  <<"(", "h", "'", "(", "(", "x", ")", "x", ")", ")">>

\* (apply 'g '(1))
ApplyG1 ==
  <<"(", "apply", "'", "g", "'", "(", "1", ")", ")">>

DispatchLines == {DefunCar, DefunIfForm, SetqPlus, CallCar, IfElse, CallPlus,
                  SetqGFn, SetqG3, CallG1, CallG2, LetGCall, DefunHCallsG,
                  CallHWithFn, ApplyG1}

NextDispatch == Step(DispatchLines)

SpecDispatch == Init /\ [][NextDispatch]_vars

\* the calls of g with one argument: by name, from a let that binds g, from a
\* function whose parameter is g, and through apply
CallsOfG1 == {CallG1, LetGCall, CallHWithFn, ApplyG1}

\* the function designator that (setq g '((x) (list x x))) stores
DesignatorG ==
  ListV(<<ListV(<<SymV("x")>>), ListV(<<SymV("list"), SymV("x"), SymV("x")>>)>>)

\* C14: the order of dispatch of a call.  A special form or a primitive is
\* used also after a defun or a setq has bound its name in the global alist;
\* any other name is looked up in the global alist only: bound there to a
\* function, that function is called, also from where a let or a parameter
\* binds the name to another function; not bound there, the call fails with
\* "Unknown function", also where a let or a parameter binds the name to a
\* function; and a call with an argument count that differs from the count of
\* the formals fails with "Lambda argument count mismatch".
C14_DispatchOrder ==
  [][Evaluated =>
       /\ line' \in {CallCar, IfElse, CallPlus} =>
            /\ err' = ""
            /\ pc' \in {"repl", "cases"} =>
                 result' = CASE line' = CallCar -> IntV(1)
                             [] line' = IfElse -> IntV(2)
                             [] line' = CallPlus -> IntV(3)
       /\ (line' \in CallsOfG1 \cup {CallG2}
             /\ (line' = CallHWithFn => "h" \in DOMAIN globalAlist)) =>
            /\ globalAlist' = globalAlist
            /\ "g" \notin DOMAIN globalAlist => err' = "Unknown function: g"
            /\ ("g" \in DOMAIN globalAlist /\ globalAlist["g"] = DesignatorG) =>
                 IF line' = CallG2 THEN err' = "Lambda argument count mismatch"
                 ELSE /\ err' = ""
                      /\ pc' \in {"repl", "cases"} =>
                           result' = ListV(<<IntV(1), IntV(1)>>)
            /\ ("g" \in DOMAIN globalAlist /\ globalAlist["g"] = IntV(3)) =>
                 err' # ""]_vars

\* car is still the primitive after (defun car (x) 7)
C14_Witness ==
  /\ Shown
  /\ line = CallCar
  /\ "car" \in DOMAIN globalAlist
  /\ result = IntV(1)

(***************************************************************************)
(* lambda: sessions with lambda forms, and with functions named as their   *)
(* formals are.                                                            *)
(***************************************************************************)
\* (lambda (x) x)
LambdaId ==
  <<"(", "lambda", "(", "x", ")", "x", ")">>

\* (lambda () (setq a 1))
LambdaNoFormals ==
  <<"(", "lambda", "(", ")", "(", "setq", "a", "1", ")", ")">>

\* (lambda (x y) (cons x y))
LambdaCons ==
  <<"(", "lambda", "(", "x", "y", ")", "(", "cons", "x", "y", ")", ")">>

\* (lambda (f) 1)
LambdaCallsFormal ==
  <<"(", "lambda", "(", "f", ")", "1", ")">>

\* (defun f () (setq b 2))
DefunFStores ==
  <<"(", "defun", "f", "(", ")", "(", "setq", "b", "2", ")", ")">>

\* (defun x () 1)
DefunXOne ==
  <<"(", "defun", "x", "(", ")", "1", ")">>

LambdaForms == {LambdaId, LambdaNoFormals, LambdaCons, LambdaCallsFormal}

LambdaLines == LambdaForms \cup {DefunFStores, DefunXOne, SetqA1, EvalA}

NextLambda == Step(LambdaLines)

SpecLambda == Init /\ [][NextLambda]_vars

\* the operands of the form of a line, as written
OperandsAsWritten(tokens) == ListV(Tail(readSExpression(tokens).v.l))

\* C15: lambda returns its operands unevaluated.  A form (lambda formals
\* body...) does not fail, its value is the list of the formals and the body
\* forms exactly as written, and nothing is evaluated: no function named as a
\* formal is called and no setq of the body happens, so the global alist is
\* left as it was.
C15_LambdaReturnsOperandsUnevaluated ==
  [][(Evaluated /\ line' \in LambdaForms) =>
       /\ err' = ""
       /\ globalAlist' = globalAlist
       /\ pc' \in {"repl", "cases"} => result' = OperandsAsWritten(line')]_vars

(***************************************************************************)
(* apply: sessions that apply primitives and a user function to lists      *)
(* whose elements are forms.                                               *)
(***************************************************************************)
\* (apply 'list '((setq a 1) x))
ApplyListForms ==
  <<"(", "apply", "'", "list", "'", "(", "(", "setq", "a", "1", ")", "x",
    ")", ")">>

\* (apply (quote list) (list 'x 'a))
ApplyBuiltList ==
  <<"(", "apply", "(", "quote", "list", ")", "(", "list", "'", "x", "'",
    "a", ")", ")">>

\* (defun h (x) x)
DefunIdH ==
  <<"(", "defun", "h", "(", "x", ")", "x", ")">>

\* (apply 'h '((setq a 1)))
ApplyUserH ==
  <<"(", "apply", "'", "h", "'", "(", "(", "setq", "a", "1", ")", ")", ")">>

\* (apply 'cons '(x (setq a 1)))
ApplyConsForms ==
  <<"(", "apply", "'", "cons", "'", "(", "x", "(", "setq", "a", "1", ")",
    ")", ")">>

\* (apply 'if '(t (setq a 1) 2))
ApplyIfForms ==
  <<"(", "apply", "'", "if", "'", "(", "t", "(", "setq", "a", "1", ")", "2",
    ")", ")">>

\* (apply '((x) x) '(1))
ApplyDesignator ==
  <<"(", "apply", "'", "(", "(", "x", ")", "x", ")", "'", "(", "1", ")", ")">>

\* (apply 1 '(1))
ApplyInteger ==
  <<"(", "apply", "1", "'", "(", "1", ")", ")">>

ApplyForms == {ApplyCar, ApplyListForms, ApplyBuiltList, ApplyUserH,
               ApplyConsForms, ApplyIfForms, ApplyDesignator, ApplyInteger}

ApplyLines == ApplyForms \cup {DefunIdH, SetqX1, SetqA1, EvalA}

NextApply == Step(ApplyLines)

SpecApply == Init /\ [][NextApply]_vars

\* the form (setq a 1), as a value
FormSetqA1 == ListV(<<SymV("setq"), SymV("a"), IntV(1)>>)

\* the value of an apply line when the elements of the argument list are
\* handed to the function as they are
ApplyValue(tokens) ==
  CASE tokens = ApplyCar -> SymV("a")
    [] tokens = ApplyListForms -> ListV(<<FormSetqA1, SymV("x")>>)
    [] tokens = ApplyBuiltList -> ListV(<<SymV("x"), SymV("a")>>)
    [] tokens = ApplyUserH -> FormSetqA1
    [] tokens = ApplyConsForms -> ListV(<<SymV("x"), SymV("setq"), SymV("a"), IntV(1)>>)
    [] tokens = ApplyIfForms -> FormSetqA1

\* C16: apply evaluates the function expression and the argument list
\* expression once each and hands the elements of the list to the function as
\* they are.  An element that is a form or a bound symbol is not evaluated a
\* further time, whatever the name applied (a primitive, a user function, or
\* if, which myApplyAtom accepts): its setq does not happen and the global
\* alist is left as it was; and apply fails when the function expression
\* gives a list or an integer and not a symbol.
C16_ApplyDoesNotEvaluateElements ==
  [][(Evaluated /\ line' \in ApplyForms) =>
       /\ globalAlist' = globalAlist
       /\ line' \in {ApplyDesignator, ApplyInteger} =>
            err' = "apply expects a function symbol as first arg"
       /\ (line' = ApplyUserH /\ "h" \notin DOMAIN globalAlist) =>
            err' = "Unknown function: h"
       /\ (line' \notin {ApplyDesignator, ApplyInteger}
             /\ (line' = ApplyUserH => "h" \in DOMAIN globalAlist)) =>
            /\ err' = ""
            /\ pc' \in {"repl", "cases"} => result' = ApplyValue(line')]_vars

(***************************************************************************)
(* The primitives that take operands of one kind, applied to the values of *)
(* every kind.                                                             *)
(***************************************************************************)
UnaryPrims == {"car", "cdr", "1+", "1-", "zerop"}

BinaryPrims == {"elem", "+", "-", "*", "/", "<", ">", "=", "mod", "floor"}

\* myApplyAtom called with a primitive's name and as many evaluated operands
\* as the primitive takes
ApplyKinds(name) ==
  /\ pc = "prim"
  /\ LET r == myApplyAtom(name,
                          SubSeq(operands, 1, IF name \in UnaryPrims THEN 1 ELSE 2),
                          GlobalRef, globalAlist, MaxDepth)
     IN /\ result' = r.v
        /\ err' = r.err
        /\ printed' = IF r.err = "" THEN toLispString(r.v) ELSE ""
  /\ line' = <<name>>
  /\ pc' = "done"
  /\ UNCHANGED <<globalAlist, nlines, operands, input>>

NextKinds == \E name \in UnaryPrims \cup BinaryPrims : ApplyKinds(name)

InitKinds ==
  /\ globalAlist = EmptyAlist
  /\ line = <<>>
  /\ result = NilV
  /\ printed = ""
  /\ err = ""
  /\ pc = "prim"
  /\ nlines = 0
  /\ operands \in {<<x, y>> : x \in Values, y \in Values}
  /\ input = <<>>

SpecKinds == InitKinds /\ [][NextKinds]_vars

\* the operands the primitive of the line was applied to
Applied == IF line[1] \in UnaryPrims THEN SubSeq(operands, 1, 1)
           ELSE SubSeq(operands, 1, 2)

\* an integer, or a symbol that is not NIL
IsIntegerOrSymbol(x) == x.k = "int" \/ (x.k = "string" /\ ~isNil(x))

\* C17: a primitive given an operand of the wrong kind fails and returns no
\* value: car and cdr of an integer or of a symbol that is not NIL, elem with
\* an integer or such a symbol where the list is to be, and + - * / < > =
\* 1+ 1- mod zerop and the floor of two operands with a symbol or a list
\* among the operands.
C17_WrongKindFails ==
  (pc = "done" /\ line[1] \in UnaryPrims \cup BinaryPrims) =>
    /\ (line[1] \in {"car", "cdr"} /\ IsIntegerOrSymbol(operands[1])) =>
         err # ""
    /\ (line[1] = "elem" /\ IsIntegerOrSymbol(operands[2])) => err # ""
    /\ (line[1] \notin {"car", "cdr", "elem"}
          /\ \E i \in 1..Len(Applied) : Applied[i].k \in {"string", "list"}) =>
         err # ""

(***************************************************************************)
(* All the sessions together.                                              *)
(***************************************************************************)
AllLines ==
  ScopeLines \cup CaseLines \cup FrameLines \cup FailLines \cup CondLines
    \cup SymLines \cup DispatchLines \cup LambdaLines \cup ApplyLines

Next == Step(AllLines) \/ NextPrim \/ NextKinds \/ NextRead

Spec == (Init \/ InitPrim \/ InitKinds \/ InitRead) /\ [][Next]_vars

====
